---- MODULE Spec2Model ----
(***************************************************************************)
(* Model of services/geminiService.ts (src/unnamed/part_000, lines 1-336): *)
(* the timestamp normalizer, the response recovery engine, the            *)
(* transcription client with its abort race, translation and speech;      *)
(* and of the speak control of components/SegmentItem.tsx.                 *)
(*                                                                         *)
(* A JavaScript string is a sequence of one-character strings:             *)
(* "5:30" is <<"5", ":", "3", "0">>.                                        *)
(***************************************************************************)
EXTENDS Integers, Sequences, FiniteSets

VARIABLES
    tsIn,       \* normalizeTimestamp: the argument ts
    tsOut,      \* normalizeTimestamp: the returned string
    tsDone,     \* normalizeTimestamp: whether the call has returned
    tsPass,     \* how many times the result was fed back as the argument
    respDoc,    \* the document the provider wrote: segments, layout, cut, fence
    respText,   \* the response text that arrived
    repairOut,  \* what tryRepairJson(respText) returned or threw
    procOut,    \* what lines 231-253 of transcribeAudio ended with on respText
    recStep,    \* how far the recovery of respText has come
    pc,           \* transcribeAudio: "idle", "awaiting" at line 201, or "done"
    hasSignal,    \* whether the caller passed an AbortSignal
    aborted,      \* signal.aborted
    abortPromise, \* the promise of lines 196-199
    request,      \* the promise generateContent returned
    race,         \* the promise Promise.race returned
    jobs,         \* the microtask queue, oldest job first
    settled,      \* what the call ended with, whether it logged, what it caught
    abortedFirst, \* history: the signal was aborted at the call or became
                  \* aborted while the request was pending
    calls,        \* history: the invocations of the three operations, in order
    sent,         \* history: the outbound requests issued, in order
    trIn,         \* translateSegments: the argument segments
    trAnswer,     \* translateSegments: how the provider treats the segments
    trRequest,    \* translateSegments: the promise generateContent returned
    trPc,         \* translateSegments: "idle", "awaiting" at line 261, "done"
    trOut,        \* translateSegments: what the call ended with
    spSpeaking,   \* SegmentItem: the state isSpeaking
    spShown,      \* SegmentItem: isSpeaking as of the last render
    spRuns,       \* handleSpeak: the activations that passed line 51, each
                  \* with its position, what its awaited promise settled
                  \* with, and the step it failed at
    spClicks      \* how many times the speak control was activated

normVars == <<tsIn, tsOut, tsDone, tsPass>>

recVars == <<respDoc, respText, repairOut, procOut, recStep>>

callVars == <<pc, hasSignal, aborted, abortPromise, request, race, jobs, settled, abortedFirst>>

netVars == <<calls, sent>>

trVars == <<trIn, trAnswer, trRequest, trPc, trOut>>

speakVars == <<spSpeaking, spShown, spRuns, spClicks>>

vars == <<normVars, recVars, callVars, netVars, trVars, speakVars>>

(***************************************************************************)
(* Characters and elementary string operations of the JavaScript runtime.  *)
(***************************************************************************)
DigitChars == <<"0", "1", "2", "3", "4", "5", "6", "7", "8", "9">>

Digits == {DigitChars[i] : i \in 1..10}

\* \s of a regular expression and the characters String.prototype.trim removes
Whitespace == {" ", "\t", "\n", "\r"}

SetMin(S) == CHOOSE x \in S : \A y \in S : x <= y

SetMax(S) == 0 - SetMin({0 - x : x \in S})

DigitVal(c) == (CHOOSE i \in 1..10 : DigitChars[i] = c) - 1

\* the index of the first character at or after i that is not whitespace
RECURSIVE SkipWs(_, _)
SkipWs(s, i) ==
    IF i <= Len(s) /\ s[i] \in Whitespace THEN SkipWs(s, i + 1) ELSE i

\* the index of the last character at or before i that is not whitespace
RECURSIVE SkipWsBack(_, _)
SkipWsBack(s, i) ==
    IF i >= 1 /\ s[i] \in Whitespace THEN SkipWsBack(s, i - 1) ELSE i

\* String.prototype.trim
Trim(s) == SubSeq(s, SkipWs(s, 1), SkipWsBack(s, Len(s)))

\* String.prototype.startsWith
StartsWith(s, p) == Len(s) >= Len(p) /\ SubSeq(s, 1, Len(p)) = p

\* String.prototype.padStart(n, '0')
PadStart(s, n) == [i \in 1..(n - Len(s)) |-> "0"] \o s

\* String.prototype.padEnd(n, '0')
PadEnd(s, n) == s \o [i \in 1..(n - Len(s)) |-> "0"]

\* String.prototype.substring(0, n)
Substring0(s, n) == SubSeq(s, 1, IF Len(s) < n THEN Len(s) ELSE n)

\* parseInt of a string of decimal digits
RECURSIVE DigitsToNat(_)
DigitsToNat(s) ==
    IF s = <<>> THEN 0
    ELSE 10 * DigitsToNat(SubSeq(s, 1, Len(s) - 1)) + DigitVal(s[Len(s)])

\* String(n) of a non-negative integer
RECURSIVE NatToString(_)
NatToString(n) ==
    IF n < 10 THEN <<DigitChars[n + 1]>>
    ELSE NatToString(n \div 10) \o <<DigitChars[(n % 10) + 1]>>

RECURSIVE Pow10(_)
Pow10(k) == IF k = 0 THEN 1 ELSE 10 * Pow10(k - 1)

(***************************************************************************)
(* normalizeTimestamp (part_000 lines 37-73).                              *)
(***************************************************************************)
ZeroTimestamp == <<"0", "0", ":", "0", "0", ":", "0", "0", ".", "0", "0", "0">>

\* /^\d+(\.\d+)?$/.test(raw) && !raw.includes(':')
IsRawSeconds(raw) ==
    LET dots == {i \in 1..Len(raw) : raw[i] = "."}
    IN  /\ Len(raw) > 0
        /\ \A i \in 1..Len(raw) : raw[i] \in Digits \cup {"."}
        /\ Cardinality(dots) <= 1
        /\ \A i \in dots : i > 1 /\ i < Len(raw)

\* The raw-seconds branch: parseFloat, then floor and round arithmetic.
\* totalSeconds is whole + fracNum / 10^fracLen, computed exactly; the
\* double arithmetic of the source agrees with it except on a tie of
\* Math.round, which the inputs of the model avoid (no fraction of four
\* digits ends in 5).
SecondsToTimestamp(raw) ==
    LET dots    == {i \in 1..Len(raw) : raw[i] = "."}
        dot     == IF dots = {} THEN Len(raw) + 1 ELSE SetMin(dots)
        whole   == DigitsToNat(SubSeq(raw, 1, dot - 1))
        fracStr == SubSeq(raw, dot + 1, Len(raw))
        fracNum == DigitsToNat(fracStr)
        scale   == Pow10(Len(fracStr))
        h       == whole \div 3600
        m       == (whole % 3600) \div 60
        s       == whole % 60
        ms      == (2 * 1000 * fracNum + scale) \div (2 * scale)
    IN  PadStart(NatToString(h), 2) \o <<":">> \o PadStart(NatToString(m), 2)
          \o <<":">> \o PadStart(NatToString(s), 2) \o <<".">>
          \o PadStart(NatToString(ms), 3)

\* raw.replace(/[^\d:.]/g, '')
Clean(raw) == SelectSeq(raw, LAMBDA c : c \in Digits \cup {":", "."})

\* clean.split(/[:.]/): the pieces between the separators, at least one
Components(clean) ==
    LET seps     == {i \in 1..Len(clean) : clean[i] \in {":", "."}}
        n        == Cardinality(seps)
        sepAt(k) == IF k = 0 THEN 0
                    ELSE IF k = n + 1 THEN Len(clean) + 1
                    ELSE CHOOSE i \in seps : Cardinality({j \in seps : j < i}) = k - 1
    IN  [k \in 1..(n + 1) |-> SubSeq(clean, sepAt(k - 1) + 1, sepAt(k) - 1)]

\* Fields with the milliseconds component never assigned
NoMillisFields(c) ==
    IF Len(c) >= 4 THEN [hh |-> c[1], mm |-> c[2], ss |-> c[3], mmm |-> <<"0", "0", "0">>]
    ELSE IF Len(c) = 3 THEN
        [hh |-> c[1], mm |-> c[2], ss |-> c[3], mmm |-> <<"0", "0", "0">>]
    ELSE IF Len(c) = 2 THEN
        [hh |-> <<"0", "0">>, mm |-> c[1], ss |-> c[2], mmm |-> <<"0", "0", "0">>]
    ELSE [hh |-> <<"0", "0">>, mm |-> <<"0", "0">>, ss |-> c[1], mmm |-> <<"0", "0", "0">>]

\* Fields with a last component of three or more characters taken as milliseconds
LooseMillisFields(c) ==
    IF Len(c) >= 4 THEN [hh |-> c[1], mm |-> c[2], ss |-> c[3], mmm |-> c[4]]
    ELSE IF Len(c) = 3 THEN
        IF Len(c[3]) >= 3
        THEN [hh |-> <<"0", "0">>, mm |-> c[1], ss |-> c[2], mmm |-> c[3]]
        ELSE [hh |-> c[1], mm |-> c[2], ss |-> c[3], mmm |-> <<"0", "0", "0">>]
    ELSE IF Len(c) = 2 THEN
        [hh |-> <<"0", "0">>, mm |-> c[1], ss |-> c[2], mmm |-> <<"0", "0", "0">>]
    ELSE [hh |-> <<"0", "0">>, mm |-> <<"0", "0">>, ss |-> c[1], mmm |-> <<"0", "0", "0">>]

\* The destructuring of lines 56-70: which component becomes which field
Fields(c) ==
    IF Len(c) >= 4 THEN [hh |-> c[1], mm |-> c[2], ss |-> c[3], mmm |-> c[4]]
    ELSE IF Len(c) = 3 THEN
        IF Len(c[3]) = 3
        THEN [hh |-> <<"0", "0">>, mm |-> c[1], ss |-> c[2], mmm |-> c[3]]
        ELSE [hh |-> c[1], mm |-> c[2], ss |-> c[3], mmm |-> <<"0", "0", "0">>]
    ELSE IF Len(c) = 2 THEN
        [hh |-> <<"0", "0">>, mm |-> c[1], ss |-> c[2], mmm |-> <<"0", "0", "0">>]
    ELSE [hh |-> <<"0", "0">>, mm |-> <<"0", "0">>, ss |-> c[1], mmm |-> <<"0", "0", "0">>]

\* The template string of line 72
FormatFields(f) ==
    Substring0(PadStart(f.hh, 2), 2) \o <<":">> \o Substring0(PadStart(f.mm, 2), 2)
      \o <<":">> \o Substring0(PadStart(f.ss, 2), 2) \o <<".">>
      \o Substring0(PadEnd(f.mmm, 3), 3)

normalizeTimestamp(ts) ==
    IF ts = <<>> THEN ZeroTimestamp
    ELSE LET raw == Trim(ts)
         IN  IF IsRawSeconds(raw) THEN SecondsToTimestamp(raw)
             ELSE FormatFields(Fields(Components(Clean(raw))))

(***************************************************************************)
(* JSON.parse.  A parsed value is a record [t, v]: t is "str", "num",      *)
(* "true", "false", "null", "arr" or "obj"; v holds the characters of a    *)
(* string, the literal text of a number, the elements of an array, or the  *)
(* members [k, x] of an object in their order of appearance.  A parse      *)
(* result is [ok, val, pos]: pos is the index after the value.             *)
(***************************************************************************)
JsonNull == [t |-> "null", v |-> <<>>]

ParseFail == [ok |-> FALSE, val |-> JsonNull, pos |-> 0]

ParseOk(val, pos) == [ok |-> TRUE, val |-> val, pos |-> pos]

\* whether the characters of lit stand in s at index i
HasAt(s, i, lit) ==
    /\ i + Len(lit) - 1 <= Len(s)
    /\ \A k \in 1..Len(lit) : s[i + k - 1] = lit[k]

HexDigits == Digits \cup {"a", "b", "c", "d", "e", "f", "A", "B", "C", "D", "E", "F"}

\* the character a single-letter escape stands for; "\\b" names the backspace
EscapeChar(e) ==
    CASE e = "n" -> "\n"
      [] e = "t" -> "\t"
      [] e = "r" -> "\r"
      [] e = "f" -> "\f"
      [] e = "b" -> "\\b"
      [] OTHER -> e

\* how many backslashes stand immediately before index k, from index j on
RECURSIVE BackslashRun(_, _, _)
BackslashRun(s, j, k) ==
    IF k > j /\ s[k - 1] = "\\" THEN 1 + BackslashRun(s, j, k - 1) ELSE 0

\* the concatenation of pieces[lo..hi]
RECURSIVE Flatten(_, _, _)
Flatten(pieces, lo, hi) ==
    IF lo > hi THEN <<>>
    ELSE IF lo = hi THEN pieces[lo]
    ELSE LET mid == (lo + hi) \div 2
         IN  Flatten(pieces, lo, mid) \o Flatten(pieces, mid + 1, hi)

\* the body of a string literal that starts at index j: it ends at the first
\* quote that no backslash escapes; every escape in it must be a JSON escape
\* and no control character may stand in it
ParseStringBody(s, j) ==
    LET ends     == {k \in j..Len(s) : s[k] = "\"" /\ BackslashRun(s, j, k) % 2 = 0}
        end      == SetMin(ends)
        escAt(k) == s[k] = "\\" /\ BackslashRun(s, j, k) % 2 = 0
        uAt(k)   == escAt(k) /\ s[k + 1] = "u"
        validEsc(k) ==
            \/ s[k + 1] \in {"\"", "\\", "/", "b", "f", "n", "r", "t"}
            \/ /\ s[k + 1] = "u"
               /\ k + 5 < end
               /\ \A m \in 2..5 : s[k + m] \in HexDigits
        piece(k) ==
            IF escAt(k) THEN <<IF s[k + 1] = "u" THEN "\\u" ELSE EscapeChar(s[k + 1])>>
            ELSE IF k > j /\ escAt(k - 1) THEN <<>>
            ELSE IF \E m \in 2..5 : k - m >= j /\ uAt(k - m) THEN <<>>
            ELSE <<s[k]>>
    IN  IF ends = {} THEN ParseFail
        ELSE IF \E k \in j..(end - 1) :
                    \/ escAt(k) /\ ~validEsc(k)
                    \/ s[k] \in {"\n", "\t", "\r", "\f"}
             THEN ParseFail
        ELSE ParseOk([t |-> "str", v |-> Flatten([k \in j..(end - 1) |-> piece(k)], j, end - 1)],
                     end + 1)

\* the index after the run of digits that starts at i
RECURSIVE SkipDigits(_, _)
SkipDigits(s, i) ==
    IF i <= Len(s) /\ s[i] \in Digits THEN SkipDigits(s, i + 1) ELSE i

\* -? (0 | [1-9][0-9]*) (\.[0-9]+)? ([eE][+-]?[0-9]+)?
ParseNumber(s, i) ==
    LET a    == IF i <= Len(s) /\ s[i] = "-" THEN i + 1 ELSE i
        b    == IF a <= Len(s) /\ s[a] = "0" THEN a + 1 ELSE SkipDigits(s, a)
        c    == IF b <= Len(s) /\ s[b] = "." THEN SkipDigits(s, b + 1) ELSE b
        e    == IF c <= Len(s) /\ s[c] \in {"e", "E"}
                THEN IF c + 1 <= Len(s) /\ s[c + 1] \in {"+", "-"} THEN c + 2 ELSE c + 1
                ELSE c
        d    == IF e > c THEN SkipDigits(s, e) ELSE c
    IN  IF b = a \/ (c > b /\ c = b + 1) \/ (e > c /\ d = e) THEN ParseFail
        ELSE ParseOk([t |-> "num", v |-> SubSeq(s, i, d - 1)], d)

RECURSIVE ParseValue(_, _)
RECURSIVE ParseElements(_, _, _)
RECURSIVE ParseMembers(_, _, _)

\* the elements of an array after "[" or ","; i is at the next element
ParseElements(s, i, acc) ==
    LET r == ParseValue(s, i)
        k == SkipWs(s, r.pos)
    IN  IF ~r.ok \/ k > Len(s) THEN ParseFail
        ELSE IF s[k] = "]" THEN ParseOk([t |-> "arr", v |-> Append(acc, r.val)], k + 1)
        ELSE IF s[k] = "," THEN ParseElements(s, SkipWs(s, k + 1), Append(acc, r.val))
        ELSE ParseFail

\* the members of an object after "{" or ","; i is at the next key
ParseMembers(s, i, acc) ==
    IF i > Len(s) \/ s[i] # "\"" THEN ParseFail
    ELSE LET key == ParseStringBody(s, i + 1)
             c   == SkipWs(s, key.pos)
             r   == ParseValue(s, SkipWs(s, c + 1))
             k   == SkipWs(s, r.pos)
             all == Append(acc, [k |-> key.val.v, x |-> r.val])
         IN  IF ~key.ok \/ c > Len(s) \/ s[c] # ":" THEN ParseFail
             ELSE IF ~r.ok \/ k > Len(s) THEN ParseFail
             ELSE IF s[k] = "}" THEN ParseOk([t |-> "obj", v |-> all], k + 1)
             ELSE IF s[k] = "," THEN ParseMembers(s, SkipWs(s, k + 1), all)
             ELSE ParseFail

\* the value that starts at index i (whitespace already skipped)
ParseValue(s, i) ==
    IF i > Len(s) THEN ParseFail
    ELSE IF s[i] = "{" THEN
        LET j == SkipWs(s, i + 1)
        IN  IF j <= Len(s) /\ s[j] = "}" THEN ParseOk([t |-> "obj", v |-> <<>>], j + 1)
            ELSE ParseMembers(s, j, <<>>)
    ELSE IF s[i] = "[" THEN
        LET j == SkipWs(s, i + 1)
        IN  IF j <= Len(s) /\ s[j] = "]" THEN ParseOk([t |-> "arr", v |-> <<>>], j + 1)
            ELSE ParseElements(s, j, <<>>)
    ELSE IF s[i] = "\"" THEN ParseStringBody(s, i + 1)
    ELSE IF s[i] \in Digits \cup {"-"} THEN ParseNumber(s, i)
    ELSE IF HasAt(s, i, <<"t", "r", "u", "e">>) THEN ParseOk([t |-> "true", v |-> <<>>], i + 4)
    ELSE IF HasAt(s, i, <<"f", "a", "l", "s", "e">>)
         THEN ParseOk([t |-> "false", v |-> <<>>], i + 5)
    ELSE IF HasAt(s, i, <<"n", "u", "l", "l">>) THEN ParseOk(JsonNull, i + 4)
    ELSE ParseFail

\* the parse r of a value of s, which must leave nothing but whitespace
WholeText(s, r) == IF r.ok /\ SkipWs(s, r.pos) = Len(s) + 1 THEN r ELSE ParseFail

\* JSON.parse(s): ok is FALSE where JSON.parse throws SyntaxError
JsonParse(s) == WholeText(s, ParseValue(s, SkipWs(s, 1)))

\* whether object value o has an own property key
HasMember(o, key) == o.t = "obj" /\ \E i \in 1..Len(o.v) : o.v[i].k = key

\* o[key] of an object value that has it: the last member of that name
Member(o, key) == o.v[SetMax({i \in 1..Len(o.v) : o.v[i].k = key})].x

(***************************************************************************)
(* tryRepairJson (part_000 lines 80-151).                                  *)
(***************************************************************************)
KeySegments == <<"s", "e", "g", "m", "e", "n", "t", "s">>

KeyStartTime == <<"s", "t", "a", "r", "t", "T", "i", "m", "e">>

KeyEndTime == <<"e", "n", "d", "T", "i", "m", "e">>

KeyText == <<"t", "e", "x", "t">>

Quoted(key) == <<"\"">> \o key \o <<"\"">>

\* parsed.segments && Array.isArray(parsed.segments), inside the try block:
\* a SyntaxError of JSON.parse and the TypeError of null.segments are caught
HasSegmentsArray(r) ==
    /\ r.ok
    /\ HasMember(r.val, KeySegments)
    /\ Member(r.val, KeySegments).t = "arr"

\* trimmed.lastIndexOf('}'), 0 for the -1 of the source
LastIndexOf(s, c) ==
    LET at == {i \in 1..Len(s) : s[i] = c}
    IN  IF at = {} THEN 0 ELSE SetMax(at)

\* the index of the first c at or after i, Len(s) + 1 when there is none
IndexFrom(s, i, c) ==
    SetMin({k \in i..(Len(s) + 1) : k = Len(s) + 1 \/ s[k] = c})

\* a match in progress: the index of the next character and the captures
\* made so far; NoMatch when the pattern did not match
NoMatch == [ok |-> FALSE, pos |-> 0, groups |-> <<>>]

MatchFrom(i) == [ok |-> TRUE, pos |-> i, groups |-> <<>>]

\* the characters of lit after match m
Lit(s, m, lit) ==
    IF m.ok /\ HasAt(s, m.pos, lit) THEN [m EXCEPT !.pos = @ + Len(lit)] ELSE NoMatch

\* \s* after match m
Ws(s, m) == IF m.ok THEN [m EXCEPT !.pos = SkipWs(s, @)] ELSE NoMatch

\* ([^"]+)" after match m, which stands after the opening quote
QuotedValue(s, m) ==
    IF ~m.ok THEN NoMatch
    ELSE LET d == IndexFrom(s, m.pos, "\"")
         IN  IF d <= Len(s) /\ d > m.pos
             THEN [ok |-> TRUE, pos |-> d + 1,
                   groups |-> Append(m.groups, SubSeq(s, m.pos, d - 1))]
             ELSE NoMatch

\* \s*"key"\s*:\s*"([^"]+)" after match m
MatchQuotedField(s, m, key) ==
    QuotedValue(s,
        Lit(s, Ws(s, Lit(s, Ws(s, Lit(s, Ws(s, m), Quoted(key))), <<":">>)), <<"\"">>))

\* (?:[^q\\]|\\.)* from index i, for the quote character q: the index where
\* the repetition stops, which is the first q no backslash escapes or the
\* first backslash that nothing but a line terminator follows ("." matches
\* no line terminator)
SkipStringBody(s, i, q) ==
    LET stops == {k \in i..Len(s) :
                    /\ BackslashRun(s, i, k) % 2 = 0
                    /\ \/ s[k] = q
                       \/ /\ s[k] = "\\"
                          /\ (k = Len(s) \/ s[k + 1] \in {"\n", "\r"})}
    IN  IF stops = {} THEN Len(s) + 1 ELSE SetMin(stops)

\* (?:"((?:[^"\\]|\\.)*)"|'((?:[^'\\]|\\.)*)') after match m: the text between
\* double or single quotes
QuotedText(s, m) ==
    IF m.ok /\ m.pos <= Len(s) /\ s[m.pos] \in {"\"", "'"}
    THEN LET e == SkipStringBody(s, m.pos + 1, s[m.pos])
         IN  IF e <= Len(s) /\ s[e] = s[m.pos]
             THEN [ok |-> TRUE, pos |-> e + 1,
                   groups |-> Append(m.groups, SubSeq(s, m.pos + 1, e - 1))]
             ELSE NoMatch
    ELSE NoMatch

\* segmentRegex anchored at index i (line 119); groups are the captures
\* startTime, endTime and the text between its quotes
MatchSegmentAt(s, i) ==
    QuotedText(s,
      Ws(s, Lit(s, Ws(s, Lit(s, Ws(s, Lit(s, Ws(s,
        MatchQuotedField(s,
          Lit(s, Ws(s,
            MatchQuotedField(s, Lit(s, MatchFrom(i), <<"{">>), KeyStartTime)),
            <<",">>),
          KeyEndTime)),
        <<",">>)), Quoted(KeyText))), <<":">>)))

\* s.replace(/ab/g, r) for a pattern of the two characters a, b: the
\* matches are taken left to right and do not overlap
ReplacePair(s, a, b, r) ==
    LET runStart(i) ==
            LET other == {m \in 1..(i - 1) : s[m] # a}
            IN  IF other = {} THEN 1 ELSE SetMax(other) + 1
        matchAt(i) ==
            /\ i >= 1 /\ i < Len(s)
            /\ s[i] = a /\ s[i + 1] = b
            /\ (a # b \/ (i - runStart(i)) % 2 = 0)
        piece(i) ==
            IF matchAt(i) THEN r ELSE IF matchAt(i - 1) THEN <<>> ELSE <<s[i]>>
    IN  Flatten([i \in 1..Len(s) |-> piece(i)], 1, Len(s))

\* s.replace(/a/g, r) for a pattern of the one character a
ReplaceChar(s, a, r) ==
    Flatten([i \in 1..Len(s) |-> IF s[i] = a THEN r ELSE <<s[i]>>], 1, Len(s))

\* lines 132-137: the parse r of the re-quoted fragment where it succeeded,
\* else the three replaces of the catch block
Unescaped(rawText, r) ==
    IF r.ok THEN r.val.v
    ELSE ReplacePair(ReplacePair(ReplacePair(rawText, "\\", "\"", <<"\"">>),
                                 "\\", "'", <<"'">>),
                     "\\", "\\", <<"\\">>)

\* lines 130-137: JSON.parse of the fragment between quotes, its double quotes
\* escaped
Unescape(rawText) ==
    Unescaped(rawText,
              JsonParse(<<"\"">> \o ReplaceChar(rawText, "\"", <<"\\", "\"">>) \o <<"\"">>))

\* the object literal pushed at lines 139-143
ScrapedSegment(groups) ==
    [t |-> "obj",
     v |-> << [k |-> KeyStartTime, x |-> [t |-> "str", v |-> groups[1]]],
              [k |-> KeyEndTime,   x |-> [t |-> "str", v |-> groups[2]]],
              [k |-> KeyText,      x |-> [t |-> "str", v |-> Unescape(groups[3])]] >>]

\* the while loop of lines 122-144: segmentRegex.exec finds the first match
\* at or after lastIndex i and leaves lastIndex after it
RECURSIVE Scrape(_, _, _)
Scrape(s, i, acc) ==
    LET starts == {k \in i..Len(s) : s[k] = "{" /\ MatchSegmentAt(s, k).ok}
        m      == MatchSegmentAt(s, SetMin(starts))
    IN  IF starts = {} THEN acc
        ELSE Scrape(s, m.pos, Append(acc, ScrapedSegment(m.groups)))

StructureInvalid == "Response structure invalid and could not be repaired."

\* the result of tryRepairJson: the segments of the returned object and the
\* tier that produced it, or the thrown Error
Repaired(tier, segments) ==
    [ok |-> TRUE, tier |-> tier, segments |-> segments, error |-> ""]

RepairThrows(message) ==
    [ok |-> FALSE, tier |-> 0, segments |-> <<>>, error |-> message]

\* lines 94-105: the text up to its last "}" closed with "]}"
TruncationRepair(trimmed) ==
    LET lastObjectEnd == LastIndexOf(trimmed, "}")
    IN  IF lastObjectEnd = 0 THEN ParseFail
        ELSE JsonParse(SubSeq(trimmed, 1, lastObjectEnd) \o <<"]", "}">>)

\* parsed.segments of a parse that HasSegmentsArray
SegmentsOf(r) == Member(r.val, KeySegments).v

\* RepairFrom without the test of line 146: the scraped list is returned even
\* when it is empty
RepairFromNoLengthTest(direct, repaired, scraped) ==
    IF HasSegmentsArray(direct) THEN Repaired(1, SegmentsOf(direct))
    ELSE IF HasSegmentsArray(repaired) THEN Repaired(2, SegmentsOf(repaired))
    ELSE Repaired(3, scraped)

\* RepairFrom with the pattern scraping tried before the two parses
RepairFromScrapeFirst(direct, repaired, scraped) ==
    IF Len(scraped) > 0 THEN Repaired(3, scraped)
    ELSE IF HasSegmentsArray(direct) THEN Repaired(1, SegmentsOf(direct))
    ELSE IF HasSegmentsArray(repaired) THEN Repaired(2, SegmentsOf(repaired))
    ELSE RepairThrows(StructureInvalid)

\* the three tiers in their order (lines 84-150), given what each produces:
\* direct is JSON.parse of the trimmed text, repaired the parse of the
\* truncation repair, scraped the list the regex loop collects
RepairFrom(direct, repaired, scraped) ==
    IF HasSegmentsArray(direct) THEN Repaired(1, SegmentsOf(direct))
    ELSE IF HasSegmentsArray(repaired) THEN Repaired(2, SegmentsOf(repaired))
    ELSE IF Len(scraped) > 0 THEN Repaired(3, scraped)
    ELSE RepairThrows(StructureInvalid)

tryRepairJson(jsonString) ==
    RepairFrom(JsonParse(Trim(jsonString)),
               TruncationRepair(Trim(jsonString)),
               Scrape(Trim(jsonString), 1, <<>>))

(***************************************************************************)
(* transcribeAudio after the await (part_000 lines 231-253).               *)
(***************************************************************************)
\* the grave accent character, which a TLA+ string cannot hold
Backtick == "GRAVE"

Fence == <<Backtick, Backtick, Backtick>>

FenceJson == Fence \o <<"j", "s", "o", "n">>

\* text.replace(/^<fence>\s*/, '') for a text that starts with the fence
StripLeading(text, fence) == SubSeq(text, SkipWs(text, Len(fence) + 1), Len(text))

\* text.replace(/\s*```$/, '')
StripTrailing(text) ==
    IF Len(text) >= 3 /\ SubSeq(text, Len(text) - 2, Len(text)) = Fence
    THEN SubSeq(text, 1, SkipWsBack(text, Len(text) - 3))
    ELSE text

\* StripFence without the json tag: "```json" is left with its "json"
StripFenceUntagged(text) ==
    IF StartsWith(text, Fence) THEN StripTrailing(StripLeading(text, Fence))
    ELSE text

\* lines 235-239, on the trimmed text
StripFence(text) ==
    IF StartsWith(text, FenceJson) THEN StripTrailing(StripLeading(text, FenceJson))
    ELSE IF StartsWith(text, Fence) THEN StripTrailing(StripLeading(text, Fence))
    ELSE text

Undefined == [t |-> "undefined", v |-> <<>>]

\* s.key for a value s that is not null
Property(s, key) == IF HasMember(s, key) THEN Member(s, key) ELSE Undefined

\* the elements of an array joined by commas, each through str
RECURSIVE JoinElements(_, _, _)
JoinElements(a, k, str) ==
    IF k = 0 THEN <<>>
    ELSE IF k = 1 THEN str[1]
    ELSE JoinElements(a, k - 1, str) \o <<",">> \o str[k]

\* String(x).  A number gives its literal text, which is what String gives
\* for the integers without sign, exponent or fraction that the model's
\* texts contain.
RECURSIVE StringOf(_)
StringOf(x) ==
    CASE x.t = "str" -> x.v
      [] x.t = "num" -> x.v
      [] x.t = "true" -> <<"t", "r", "u", "e">>
      [] x.t = "false" -> <<"f", "a", "l", "s", "e">>
      [] x.t = "null" -> <<"n", "u", "l", "l">>
      [] x.t = "undefined" -> <<"u", "n", "d", "e", "f", "i", "n", "e", "d">>
      [] x.t = "obj" -> <<"[", "o", "b", "j", "e", "c", "t", " ", "O", "b", "j", "e", "c", "t", "]">>
      [] x.t = "arr" ->
           JoinElements(x.v, Len(x.v),
                        [i \in 1..Len(x.v) |->
                            IF x.v[i].t \in {"null", "undefined"} THEN <<>>
                            ELSE StringOf(x.v[i])])

\* an error object: id tells which throw or reject site created it
Err(name, message, id) == [name |-> name, message |-> message, id |-> id]

NoError == Err("", "", "")

\* what a function ends with: a returned value or a thrown error
Returns(segments) == [kind |-> "return", segments |-> segments, error |-> NoError]

Throws(error) == [kind |-> "throw", segments |-> <<>>, error |-> error]

\* the arrow function of lines 244-248
MapSegment(s) ==
    [startTime |-> normalizeTimestamp(StringOf(Property(s, KeyStartTime))),
     endTime   |-> normalizeTimestamp(StringOf(Property(s, KeyEndTime))),
     text      |-> StringOf(Property(s, KeyText))]

\* MapParsed with a segment dropped when it repeats the text of the segment
\* before it
MapParsedDeduplicating(parsed) ==
    LET mapped == [i \in 1..Len(parsed.segments) |-> MapSegment(parsed.segments[i])]
        kept   == [i \in 1..Len(mapped) |->
                     IF i > 1 /\ mapped[i].text = mapped[i - 1].text THEN <<>>
                     ELSE <<mapped[i]>>]
    IN  IF ~parsed.ok THEN Throws(Err("Error", parsed.error, "repair"))
        ELSE IF \E i \in 1..Len(parsed.segments) : parsed.segments[i].t = "null"
        THEN Throws(Err("TypeError", "Cannot read properties of null", "map"))
        ELSE Returns(Flatten(kept, 1, Len(kept)))

\* lines 241-248 given the outcome of tryRepairJson: its error is thrown on,
\* else (parsed.segments || []).map(...), where reading a property of a null
\* element throws TypeError
MapParsed(parsed) ==
    IF ~parsed.ok THEN Throws(Err("Error", parsed.error, "repair"))
    ELSE IF \E i \in 1..Len(parsed.segments) : parsed.segments[i].t = "null"
    THEN Throws(Err("TypeError", "Cannot read properties of null", "map"))
    ELSE Returns([i \in 1..Len(parsed.segments) |-> MapSegment(parsed.segments[i])])

\* lines 231-248: the try block from the response on.  response.text is
\* absent (hasText FALSE) or a string.
ProcessResponse(response) ==
    IF ~response.hasText \/ response.text = <<>>
    THEN Throws(Err("Error", "Empty response from model", "empty"))
    ELSE MapParsed(tryRepairJson(StripFence(Trim(response.text))))

\* Catch with the AbortError test left out: every error is wrapped
CatchWrapsAll(error) ==
    [rejection |-> Err("Error",
                       IF error.message = "" THEN "Transcription failed" ELSE error.message,
                       "wrapped"),
     logged |-> TRUE]

\* lines 249-253: what the catch block rethrows and whether it logs
Catch(error) ==
    IF error.name = "AbortError" THEN [rejection |-> error, logged |-> FALSE]
    ELSE [rejection |-> Err("Error",
                            IF error.message = "" THEN "Transcription failed"
                            ELSE error.message,
                            "wrapped"),
          logged |-> TRUE]

(***************************************************************************)
(* The response texts: a document of segments in one of three layouts,     *)
(* cut off anywhere in or after its last segment, bare or inside a code    *)
(* fence; and some texts that are no such document.                        *)
(***************************************************************************)
MaxSegments == 2

\* the segments a document is made of; tx is the text before escaping
SegmentValues ==
    { [st |-> <<"1">>, et |-> <<"2">>, tx |-> <<"a">>],
      [st |-> <<"0", ":", "0", "3">>, et |-> <<"4", ".", "5">>, tx |-> <<"b", "}", "'">>],
      [st |-> <<"5">>, et |-> <<"6", "s">>, tx |-> <<"c", "\"", "\n">>] }

Layouts == {"compact", "spaced", "single"}

Fences == {"none", "json", "plain", "open"}

\* the characters of tx as a string literal between quotes q writes them
EscapeText(tx, q) ==
    Flatten([i \in 1..Len(tx) |->
                IF tx[i] = "\\" THEN <<"\\", "\\">>
                ELSE IF tx[i] = q THEN <<"\\", q>>
                ELSE IF tx[i] = "\n" THEN <<"\\", "n">>
                ELSE <<tx[i]>>], 1, Len(tx))

RenderSegment(seg, layout) ==
    LET q  == IF layout = "single" THEN "'" ELSE "\""
        sp == IF layout = "spaced" THEN <<" ">> ELSE <<>>
        nl == IF layout = "spaced" THEN <<"\n", " ">> ELSE <<>>
    IN  <<"{">> \o sp \o Quoted(KeyStartTime) \o sp \o <<":">> \o sp
          \o <<"\"">> \o EscapeText(seg.st, "\"") \o <<"\"">> \o sp \o <<",">> \o nl
          \o Quoted(KeyEndTime) \o <<":">> \o sp
          \o <<"\"">> \o EscapeText(seg.et, "\"") \o <<"\"">> \o <<",">> \o nl
          \o Quoted(KeyText) \o <<":">> \o sp
          \o <<q>> \o EscapeText(seg.tx, q) \o <<q>> \o sp \o <<"}">>

DocOpen(layout) ==
    IF layout = "spaced"
    THEN <<"{", " ">> \o Quoted(KeySegments) \o <<":", " ", "[", "\n">>
    ELSE <<"{">> \o Quoted(KeySegments) \o <<":", "[">>

DocClose(layout) == IF layout = "spaced" THEN <<"\n", "]", " ", "}">> ELSE <<"]", "}">>

\* the first n segments, separated by commas
RECURSIVE RenderSegments(_, _, _)
RenderSegments(segs, layout, n) ==
    IF n <= 0 THEN <<>>
    ELSE IF n = 1 THEN RenderSegment(segs[1], layout)
    ELSE RenderSegments(segs, layout, n - 1) \o <<",">> \o RenderSegment(segs[n], layout)

RenderDoc(segs, layout) ==
    DocOpen(layout) \o RenderSegments(segs, layout, Len(segs)) \o DocClose(layout)

\* the index before the "{" of segment n of the document
SegmentStart(segs, layout, n) ==
    Len(DocOpen(layout)) + Len(RenderSegments(segs, layout, n - 1)) + (IF n > 1 THEN 1 ELSE 0)

\* the index of the "}" of segment n of the document
SegmentEnd(segs, layout, n) ==
    Len(DocOpen(layout)) + Len(RenderSegments(segs, layout, n))

\* texts that are no document of segments
OddTexts ==
    << <<>>, <<" ">>, <<"n", "u", "l", "l">>, <<"7">>, <<"\"", "x", "\"">>, <<"{", "}">>, <<"[", "]">>, <<"{", "\"", "s", "e", "g", "m", "e", "n", "t", "s", "\"", ":", "[", "]", "}">>,
       <<"{", "\"", "s", "e", "g", "m", "e", "n", "t", "s", "\"", ":", "n", "u", "l", "l", "}">>, <<"{", "\"", "s", "e", "g", "m", "e", "n", "t", "s", "\"", ":", "[", "n", "u", "l", "l", "]", "}">>, <<"{", "\"", "s", "e", "g", "m", "e", "n", "t", "s", "\"", ":", "[", "7", ",", "\"", "x", "\"", ",", "[", "1", ",", "n", "u", "l", "l", "]", ",", "{", "}", "]", "}">>,
       <<"{", "\"", "s", "e", "g", "m", "e", "n", "t", "s", "\"", ":", "[", "{", "\"", "t", "e", "x", "t", "\"", ":", "\"", "t", "\"", ",", "\"", "s", "t", "a", "r", "t", "T", "i", "m", "e", "\"", ":", "7", ",", "\"", "e", "n", "d", "T", "i", "m", "e", "\"", ":", "n", "u", "l", "l", "}", "]", "}">>,
       <<"{", "\"", "s", "e", "g", "m", "e", "n", "t", "s", "\"", ":", "7", ",", "\"", "s", "e", "g", "m", "e", "n", "t", "s", "\"", ":", "[", "{", "\"", "s", "t", "a", "r", "t", "T", "i", "m", "e", "\"", ":", "\"", "1", "\"", "}", "]", "}">>,
       <<"[", "{", "\"", "s", "t", "a", "r", "t", "T", "i", "m", "e", "\"", ":", "\"", "1", "\"", ",", "\"", "e", "n", "d", "T", "i", "m", "e", "\"", ":", "\"", "2", "\"", ",", "\"", "t", "e", "x", "t", "\"", ":", "\"", "a", "\"", "}", "]">>,
       <<"H", "e", "r", "e", ":", " ", "{", "\"", "s", "t", "a", "r", "t", "T", "i", "m", "e", "\"", ":", "\"", "1", "\"", ",", "\"", "e", "n", "d", "T", "i", "m", "e", "\"", ":", "\"", "2", "\"", ",", "\"", "t", "e", "x", "t", "\"", ":", "'", "i", "t", "\\", "'", "s", " ", "o", "k", "'", "}", ",", " ", "{", "\"", "s", "t", "a", "r", "t", "T", "i", "m", "e", "\"", ":", " ", "\"", "9", "\"", ",", " ", "\"", "e", "n", "d", "T", "i", "m", "e", "\"", ":", " ", "\"", "8", "\"", ",", " ", "\"", "t", "e", "x", "t", "\"", ":", " ", "\"", "z", "\"">>,
       <<"GRAVE", "GRAVE", "GRAVE", "j", "s", "o", "n", "\n", "{", "\"", "s", "e", "g", "m", "e", "n", "t", "s", "\"", ":", "[", "]", "}", "\n", "GRAVE", "GRAVE", "GRAVE">>,
       <<"GRAVE", "GRAVE", "GRAVE", "{", "\"", "s", "e", "g", "m", "e", "n", "t", "s", "\"", ":", "[", "{", "\"", "s", "t", "a", "r", "t", "T", "i", "m", "e", "\"", ":", "\"", "1", "\"", ",", "\"", "e", "n", "d", "T", "i", "m", "e", "\"", ":", "\"", "2", "\"", ",", "\"", "t", "e", "x", "t", "\"", ":", "\"", "a", "\"", "}", "]", "}", "GRAVE", "GRAVE", "GRAVE">>,
       <<"{", "\"", "s", "e", "g", "m", "e", "n", "t", "s", "\"", ":", "[", "{", "\"", "s", "t", "a", "r", "t", "T", "i", "m", "e", "\"", ":", "\"", "1", "\"", ",", "\"", "e", "n", "d", "T", "i", "m", "e", "\"", ":", "\"", "2", "\"", ",", "\"", "t", "e", "x", "t", "\"", ":", "\"", "a", "\"", "}", "]", "}", "GRAVE", "GRAVE", "GRAVE">> >>

Docs ==
    [segs : UNION {[1..n -> SegmentValues] : n \in 0..MaxSegments},
     layout : Layouts, cut : {0}, fence : Fences]

\* the documents and their cuts: cut is the number of characters that arrived
CutDocs ==
    UNION { { [d EXCEPT !.cut = k] :
                k \in SegmentStart(d.segs, d.layout, Len(d.segs))
                        ..Len(RenderDoc(d.segs, d.layout)) }
            : d \in Docs }

\* for layout "odd", cut is the index of the text in OddTexts
OddDocs == [segs : {<<>>}, layout : {"odd"}, cut : 1..Len(OddTexts), fence : Fences]

\* the content the provider wrote, before any fence
Content(doc) ==
    IF doc.layout = "odd" THEN OddTexts[doc.cut]
    ELSE SubSeq(RenderDoc(doc.segs, doc.layout), 1, doc.cut)

\* content inside a fenced code block tagged json
InJsonFence(content) == FenceJson \o <<"\n">> \o content \o <<"\n">> \o Fence

\* the text of the response
Text(doc) ==
    CASE doc.fence = "none"  -> Content(doc)
      [] doc.fence = "json"  -> InJsonFence(Content(doc))
      [] doc.fence = "plain" -> Fence \o <<"\n">> \o Content(doc) \o <<"\n">> \o Fence
      [] doc.fence = "open"  -> FenceJson \o <<"\n">> \o Content(doc)

NoDoc == [segs |-> <<>>, layout |-> "none", cut |-> 0, fence |-> "none"]

NotCalled == [ok |-> FALSE, tier |-> 0, segments |-> <<>>, error |-> "not called"]

Pending == [kind |-> "pending", segments |-> <<>>, error |-> NoError]

\* no response text is being recovered
RecIdle ==
    /\ respDoc = NoDoc
    /\ respText = <<>>
    /\ repairOut = NotCalled
    /\ procOut = Pending
    /\ recStep = "off"

\* no timestamp is being normalized on its own
NormIdle ==
    /\ tsIn = <<>>
    /\ tsOut = <<>>
    /\ tsDone = FALSE
    /\ tsPass = 0

(***************************************************************************)
(* Spec: one call of transcribeAudio (part_000 lines 153-254) with its     *)
(* promises.  The call runs to the await of line 201 in one step; the      *)
(* caller aborts the signal and the provider settles the request at any    *)
(* time; the jobs of the microtask queue run oldest first.                 *)
(***************************************************************************)
\* new DOMException("Aborted", "AbortError") of lines 197 and 198
AbortError == Err("AbortError", "Aborted", "abort")

NoResponse == [hasText |-> FALSE, text |-> <<>>]

\* the documents a response may carry, whole
ResponseDocs == OddDocs \cup Docs

\* what generateContent resolves with: a response without text, or with the
\* text of a document
Responses == {NoResponse} \cup {[hasText |-> TRUE, text |-> Text(d)] : d \in ResponseDocs}

\* what generateContent rejects with.  The client of line 4 has no timeout
\* and the request of lines 202-227 carries no signal, so the transport has
\* nothing that aborts it: its errors are not named AbortError.
TransportErrors ==
    {Err(n, m, "transport") : n \in {"Error", "TypeError", "ApiError"},
                              m \in {"", "fetch failed"}}

\* a promise: its state and what it settled with
NoPromise == [state |-> "none", response |-> NoResponse, error |-> NoError]

PendingPromise == [state |-> "pending", response |-> NoResponse, error |-> NoError]

Fulfilled(response) == [state |-> "fulfilled", response |-> response, error |-> NoError]

Rejected(error) == [state |-> "rejected", response |-> NoResponse, error |-> error]

\* Executor without the test of line 197: a signal aborted before the call
\* is not noticed
ExecutorWithoutCheck(hasSig, isAborted) == PendingPromise

\* the executor of abortPromise (lines 196-199): the promise after it ran
Executor(hasSig, isAborted) ==
    IF hasSig /\ isAborted THEN Rejected(AbortError) ELSE PendingPromise

\* RaceSettle where a later settlement replaces an earlier one
RaceLastWins(r, settlement) == settlement

\* Promise.race (line 201): the first of its promises to settle settles it,
\* a later one changes nothing
RaceSettle(r, settlement) == IF r.state = "pending" THEN settlement ELSE r

\* lines 231-248 on each response the provider may give
Processed == [response \in Responses |-> ProcessResponse(response)]

\* lines 201-248: the await yields the response or throws the rejection,
\* and the rest of the try block runs on the response
TryBlock(r) ==
    IF r.state = "fulfilled" THEN Processed[r.response] ELSE Throws(r.error)

NotSettled == [outcome |-> Pending, logged |-> FALSE, caught |-> NoError]

\* what the call ends with when its try block ended with tried: the
\* returned list, or what the catch block of lines 249-253 throws
Completion(tried) ==
    IF tried.kind = "return"
    THEN [outcome |-> tried, logged |-> FALSE, caught |-> NoError]
    ELSE [outcome |-> Throws(Catch(tried.error).rejection),
          logged  |-> Catch(tried.error).logged,
          caught  |-> tried.error]

\* an invocation of one of the three operations; text is the argument of
\* generateSpeech and empty for the other two
Invocation(op, text) == [op |-> op, text |-> text]

\* Outbound with a cache: no request goes out for an operation and text that
\* a request went out for before
OutboundCached(n, made, op, text) ==
    IF \E i \in 1..Len(made) : made[i].op = op /\ made[i].text = text
    THEN <<>>
    ELSE <<[call |-> n, op |-> op, text |-> text]>>

\* the requests invocation n issues when it reaches its generateContent
\* (lines 202, 261, 317): one, whatever was made before
Outbound(n, made, op, text) == <<[call |-> n, op |-> op, text |-> text]>>

\* nothing was invoked
NetIdle ==
    /\ calls = <<>>
    /\ sent = <<>>

\* translateSegments is not part of the run
TrIdle ==
    /\ trIn = <<>>
    /\ trAnswer = "none"
    /\ trRequest = NoPromise
    /\ trPc = "off"
    /\ trOut = NotSettled

\* no SegmentItem is part of the run
SpeakIdle ==
    /\ spSpeaking = FALSE
    /\ spShown = FALSE
    /\ spRuns = <<>>
    /\ spClicks = -1

\* transcribeAudio has not been called
CallIdle ==
    /\ pc = "off"
    /\ hasSignal = FALSE
    /\ aborted = FALSE
    /\ abortPromise = NoPromise
    /\ request = NoPromise
    /\ race = NoPromise
    /\ jobs = <<>>
    /\ settled = NotSettled
    /\ abortedFirst = FALSE

Init ==
    /\ pc = "idle"
    /\ hasSignal \in BOOLEAN
    /\ aborted = FALSE
    /\ abortPromise = NoPromise
    /\ request = NoPromise
    /\ race = NoPromise
    /\ jobs = <<>>
    /\ settled = NotSettled
    /\ abortedFirst = FALSE
    /\ NormIdle
    /\ RecIdle
    /\ NetIdle
    /\ TrIdle
    /\ SpeakIdle

\* lines 160-229: the call up to the await.  The executor runs, the request
\* is issued, and Promise.race subscribes to both promises: the reaction to
\* a promise that is already rejected is queued at once.
Call ==
    /\ pc = "idle"
    /\ abortPromise' = Executor(hasSignal, aborted)
    /\ request' = PendingPromise
    /\ race' = PendingPromise
    /\ jobs' = IF Executor(hasSignal, aborted).state = "rejected"
               THEN <<"raceAbort">> ELSE <<>>
    /\ pc' = "awaiting"
    /\ abortedFirst' = (hasSignal /\ aborted)
    /\ calls' = Append(calls, Invocation("transcribe", <<>>))
    /\ sent' = sent \o Outbound(Len(calls) + 1, sent, "transcribe", <<>>)
    /\ UNCHANGED <<hasSignal, aborted, settled, normVars, recVars, trVars, speakVars>>

\* the caller aborts the signal.  After the call the listener of line 198
\* rejects abortPromise, which queues the reaction of the race.
Abort ==
    /\ hasSignal
    /\ ~aborted
    /\ aborted' = TRUE
    /\ IF pc # "idle" /\ abortPromise.state = "pending"
       THEN /\ abortPromise' = Rejected(AbortError)
            /\ jobs' = Append(jobs, "raceAbort")
       ELSE UNCHANGED <<abortPromise, jobs>>
    /\ abortedFirst' = (abortedFirst \/ (pc = "awaiting" /\ request.state = "pending"))
    /\ UNCHANGED <<pc, hasSignal, request, race, settled, normVars, recVars, netVars, trVars, speakVars>>

\* the provider answers
RequestFulfil(response) ==
    /\ request.state = "pending"
    /\ request' = Fulfilled(response)
    /\ jobs' = Append(jobs, "raceRequest")
    /\ UNCHANGED <<pc, hasSignal, aborted, abortPromise, race, settled, abortedFirst,
                   normVars, recVars, netVars, trVars, speakVars>>

\* the transport fails
RequestReject(error) ==
    /\ request.state = "pending"
    /\ request' = Rejected(error)
    /\ jobs' = Append(jobs, "raceRequest")
    /\ UNCHANGED <<pc, hasSignal, aborted, abortPromise, race, settled, abortedFirst,
                   normVars, recVars, netVars, trVars, speakVars>>

\* the reaction of the race to the settled promise p: when it settles the
\* race, the continuation of the await is queued
RaceReaction(job, p) ==
    /\ jobs # <<>>
    /\ Head(jobs) = job
    /\ race' = RaceSettle(race, p)
    /\ jobs' = Tail(jobs) \o (IF race.state = "pending" THEN <<"resume">> ELSE <<>>)
    /\ UNCHANGED <<pc, hasSignal, aborted, abortPromise, request, settled, abortedFirst,
                   normVars, recVars, netVars, trVars, speakVars>>

RaceRequestJob == RaceReaction("raceRequest", request)

RaceAbortJob == RaceReaction("raceAbort", abortPromise)

\* the continuation of the await: lines 229-253 to the end of the call
Resume ==
    /\ jobs # <<>>
    /\ Head(jobs) = "resume"
    /\ pc = "awaiting"
    /\ settled' = Completion(TryBlock(race))
    /\ pc' = "done"
    /\ jobs' = Tail(jobs)
    /\ UNCHANGED <<hasSignal, aborted, abortPromise, request, race, abortedFirst,
                   normVars, recVars, netVars, trVars, speakVars>>

\* the event loop runs the oldest job of the microtask queue
RunMicrotask == RaceRequestJob \/ RaceAbortJob \/ Resume

Next ==
    \/ Call
    \/ Abort
    \/ \E response \in Responses : RequestFulfil(response)
    \/ \E error \in TransportErrors : RequestReject(error)
    \/ RaceRequestJob
    \/ RaceAbortJob
    \/ Resume

Spec == Init /\ [][Next]_vars

\* the event loop does not stop while a job is queued; nothing obliges the
\* provider to answer or the caller to abort
FairSpec == Spec /\ WF_vars(RunMicrotask)

(***************************************************************************)
(* TranslateSpec: one call of translateSegments (part_000 lines 256-313).  *)
(***************************************************************************)
KeyTranslatedText ==
    <<"t", "r", "a", "n", "s", "l", "a", "t", "e", "d", "T", "e", "x", "t">>

\* the segments transcribeAudio returns for the segments of the documents
TrSegmentValues ==
    { [startTime |-> normalizeTimestamp(v.st), endTime |-> normalizeTimestamp(v.et),
       text |-> v.tx, translatedText |-> <<>>] : v \in SegmentValues }

\* the argument lists of translateSegments
TrInputs == UNION {[1..n -> TrSegmentValues] : n \in 0..MaxSegments}

\* how the provider treats the segments it is asked to translate: it
\* answers with all of them, without the last, in reverse order, with the
\* first start time changed, with one more, with no text at all, or with one
\* of OddTexts
TrAnswers ==
    [mode : {"faithful", "dropLast", "reversed", "retimed", "extra", "noText"}, odd : {0}]
        \cup [mode : {"odd"}, odd : 1..Len(OddTexts)]

Translated(seg) == [seg EXCEPT !.translatedText = <<"T", ":">> \o seg.text]

\* the segments the provider writes for the argument list in
AnswerSegments(in, mode) ==
    LET all == [i \in 1..Len(in) |-> Translated(in[i])]
    IN  CASE mode = "dropLast" -> SubSeq(all, 1, Len(all) - 1)
          [] mode = "reversed" -> [i \in 1..Len(all) |-> all[Len(all) + 1 - i]]
          [] mode = "retimed"  ->
               [i \in 1..Len(all) |->
                   IF i = 1 THEN [all[i] EXCEPT !.startTime = ZeroTimestamp] ELSE all[i]]
          [] mode = "extra"    -> IF all = <<>> THEN all ELSE Append(all, all[1])
          [] OTHER             -> all

JsonString(chars) == <<"\"">> \o EscapeText(chars, "\"") \o <<"\"">>

\* a translated segment as the provider writes it
RenderTranslated(seg) ==
    <<"{">> \o Quoted(KeyStartTime) \o <<":">> \o JsonString(seg.startTime)
      \o <<",">> \o Quoted(KeyEndTime) \o <<":">> \o JsonString(seg.endTime)
      \o <<",">> \o Quoted(KeyText) \o <<":">> \o JsonString(seg.text)
      \o <<",">> \o Quoted(KeyTranslatedText) \o <<":">> \o JsonString(seg.translatedText)
      \o <<"}">>

\* the first n of the rendered segments, separated by commas
RECURSIVE JoinRendered(_, _)
JoinRendered(rendered, n) ==
    IF n <= 0 THEN <<>>
    ELSE IF n = 1 THEN rendered[1]
    ELSE JoinRendered(rendered, n - 1) \o <<",">> \o rendered[n]

\* the response of the provider to the argument list in
AnswerResponse(in, answer) ==
    IF answer.mode = "noText" THEN NoResponse
    ELSE IF answer.mode = "odd" THEN [hasText |-> TRUE, text |-> OddTexts[answer.odd]]
    ELSE LET segs == AnswerSegments(in, answer.mode)
         IN  [hasText |-> TRUE,
              text |-> DocOpen("compact")
                         \o JoinRendered([i \in 1..Len(segs) |-> RenderTranslated(segs[i])],
                                         Len(segs))
                         \o DocClose("compact")]

\* whether a number literal denotes zero: no digit but 0 before an exponent
IsZeroNumber(lit) ==
    \A i \in 1..Len(lit) :
        lit[i] \in (Digits \ {"0"}) => \E k \in 1..(i - 1) : lit[k] \in {"e", "E"}

\* whether a value counts as true for the || of line 308
Truthy(x) ==
    CASE x.t \in {"null", "undefined", "false"} -> FALSE
      [] x.t = "str" -> x.v # <<>>
      [] x.t = "num" -> ~IsZeroNumber(x.v)
      [] OTHER -> TRUE

EmptyArray == [t |-> "arr", v |-> <<>>]

\* lines 307-308 given the parse r of the text: JSON.parse throws
\* SyntaxError, reading .segments of null throws TypeError, and otherwise
\* parsed.segments || [] is returned as it is
ParsedTranslation(r) ==
    IF ~r.ok THEN Throws(Err("SyntaxError", "Unexpected token", "parse"))
    ELSE IF r.val.t = "null"
    THEN Throws(Err("TypeError", "Cannot read properties of null", "segments"))
    ELSE IF Truthy(Property(r.val, KeySegments)) THEN Returns(Property(r.val, KeySegments))
    ELSE Returns(EmptyArray)

\* lines 297-308: the try block from the response on
ProcessTranslation(response) ==
    IF ~response.hasText \/ response.text = <<>>
    THEN Throws(Err("Error", "Empty translation response", "emptyTranslation"))
    ELSE ParsedTranslation(JsonParse(StripFence(Trim(response.text))))

\* lines 261-312: the await yields the response or throws the rejection; the
\* catch block logs what was thrown and throws it again
TranslationCompletion(tried) ==
    IF tried.kind = "return"
    THEN [outcome |-> tried, logged |-> FALSE, caught |-> NoError]
    ELSE [outcome |-> tried, logged |-> TRUE, caught |-> tried.error]

TranslateInit ==
    /\ trIn \in TrInputs
    /\ trAnswer \in TrAnswers
    /\ trRequest = NoPromise
    /\ trPc = "idle"
    /\ trOut = NotSettled
    /\ NetIdle
    /\ NormIdle
    /\ RecIdle
    /\ CallIdle
    /\ SpeakIdle

\* lines 260-296: the call up to the await
TranslateCall ==
    /\ trPc = "idle"
    /\ trPc' = "awaiting"
    /\ trRequest' = PendingPromise
    /\ calls' = Append(calls, Invocation("translate", <<>>))
    /\ sent' = sent \o Outbound(Len(calls) + 1, sent, "translate", <<>>)
    /\ UNCHANGED <<trIn, trAnswer, trOut, normVars, recVars, callVars, speakVars>>

\* the provider answers
TranslateFulfil ==
    /\ trRequest.state = "pending"
    /\ trRequest' = Fulfilled(AnswerResponse(trIn, trAnswer))
    /\ UNCHANGED <<trIn, trAnswer, trPc, trOut, netVars, normVars, recVars, callVars,
                   speakVars>>

\* the transport fails
TranslateReject(error) ==
    /\ trRequest.state = "pending"
    /\ trRequest' = Rejected(error)
    /\ UNCHANGED <<trIn, trAnswer, trPc, trOut, netVars, normVars, recVars, callVars,
                   speakVars>>

\* the continuation of the await: lines 297-312 to the end of the call
TranslateResume ==
    /\ trPc = "awaiting"
    /\ trRequest.state \in {"fulfilled", "rejected"}
    /\ trOut' = TranslationCompletion(
                    IF trRequest.state = "fulfilled"
                    THEN ProcessTranslation(trRequest.response)
                    ELSE Throws(trRequest.error))
    /\ trPc' = "done"
    /\ UNCHANGED <<trIn, trAnswer, trRequest, netVars, normVars, recVars, callVars,
                   speakVars>>

TranslateNext ==
    \/ TranslateCall
    \/ TranslateFulfil
    \/ \E error \in TransportErrors : TranslateReject(error)
    \/ TranslateResume

TranslateSpec == TranslateInit /\ [][TranslateNext]_vars

(***************************************************************************)
(* SpeakSpec: the speak control of one SegmentItem                         *)
(* (components/SegmentItem.tsx lines 13-16, 48-75, 118-123) and the        *)
(* generateSpeech calls it makes (part_000 lines 315-335).  The segment    *)
(* has a translatedText, without which the control is not rendered         *)
(* (line 109).                                                             *)
(***************************************************************************)
MaxClicks == 3

\* segment.translatedText
SpokenText == <<"T", ":", "a">>

\* BlockedBy that lets every activation through
BlockedByNothing(shown) == FALSE

\* whether an activation ends before line 53: the button is disabled
\* (line 121) and handleSpeak returns at line 50 when the isSpeaking of the
\* last render is true
BlockedBy(shown) == shown

\* ValueAfterCatch of a catch block that leaves the state as it is
ValueKeptAfterCatch(speaking) == speaking

\* isSpeaking after the catch block: setIsSpeaking(false) at line 73
ValueAfterCatch(speaking) == FALSE

NewRun == [pc |-> "requesting", arrived |-> "none", failure |-> "none"]

\* the run moves into the catch block of lines 71-74
Caught(run, failure) == [run EXCEPT !.pc = "caught", !.arrived = "none", !.failure = failure]

\* the activations that have not come to their end
Unfinished == {i \in 1..Len(spRuns) : spRuns[i].pc \in {"requesting", "decoding", "caught", "playing"}}

SpeakInit ==
    /\ spSpeaking = FALSE
    /\ spShown = FALSE
    /\ spRuns = <<>>
    /\ spClicks = 0
    /\ NetIdle
    /\ NormIdle
    /\ RecIdle
    /\ CallIdle
    /\ TrIdle

\* the speak control is activated (lines 48-55 and, in generateSpeech,
\* lines 316-328 up to the await).  React renders the update of an event
\* handler before the next event is handled, so the render that follows
\* setIsSpeaking(true) is part of the step.
Activate ==
    /\ spClicks >= 0
    /\ spClicks < MaxClicks
    /\ spClicks' = spClicks + 1
    /\ IF BlockedBy(spShown)
       THEN UNCHANGED <<spSpeaking, spShown, spRuns, netVars>>
       ELSE /\ spSpeaking' = TRUE
            /\ spShown' = TRUE
            /\ spRuns' = Append(spRuns, NewRun)
            /\ calls' = Append(calls, Invocation("speech", SpokenText))
            /\ sent' = sent \o Outbound(Len(calls) + 1, sent, "speech", SpokenText)
    /\ UNCHANGED <<normVars, recVars, callVars, trVars>>

\* the promise of generateSpeech settles: it rejects (lines 331-334 log and
\* rethrow), or resolves with no data or with data (line 330)
SpeechSettles(i, what) ==
    /\ i \in 1..Len(spRuns)
    /\ spRuns[i].pc = "requesting"
    /\ spRuns[i].arrived = "none"
    /\ spRuns' = [spRuns EXCEPT ![i].arrived = what]
    /\ UNCHANGED <<spSpeaking, spShown, spClicks, netVars, normVars, recVars, callVars, trVars>>

\* the continuation of the await of line 55: lines 56-64 up to the await
\* of decodeAudioData; setupThrows is whether making the AudioContext or
\* decodeBase64 throws
AfterRequest(i, setupThrows) ==
    /\ i \in 1..Len(spRuns)
    /\ spRuns[i].pc = "requesting"
    /\ spRuns[i].arrived # "none"
    /\ spRuns' = [spRuns EXCEPT ![i] =
                    IF @.arrived = "reject" THEN Caught(@, "request")
                    ELSE IF @.arrived = "empty" THEN Caught(@, "noAudio")
                    ELSE IF setupThrows THEN Caught(@, "setup")
                    ELSE [@ EXCEPT !.pc = "decoding", !.arrived = "none"]]
    /\ UNCHANGED <<spSpeaking, spShown, spClicks, netVars, normVars, recVars, callVars, trVars>>

\* the promise of decodeAudioData settles
DecodeSettles(i, what) ==
    /\ i \in 1..Len(spRuns)
    /\ spRuns[i].pc = "decoding"
    /\ spRuns[i].arrived = "none"
    /\ spRuns' = [spRuns EXCEPT ![i].arrived = what]
    /\ UNCHANGED <<spSpeaking, spShown, spClicks, netVars, normVars, recVars, callVars, trVars>>

\* the continuation of the await of line 64: lines 66-70; startThrows is
\* whether setting up or starting the source throws
AfterDecode(i, startThrows) ==
    /\ i \in 1..Len(spRuns)
    /\ spRuns[i].pc = "decoding"
    /\ spRuns[i].arrived # "none"
    /\ spRuns' = [spRuns EXCEPT ![i] =
                    IF @.arrived = "decodeFail" THEN Caught(@, "decode")
                    ELSE IF startThrows THEN Caught(@, "start")
                    ELSE [@ EXCEPT !.pc = "playing", !.arrived = "none"]]
    /\ UNCHANGED <<spSpeaking, spShown, spClicks, netVars, normVars, recVars, callVars, trVars>>

\* the catch block of lines 71-74
CatchStep(i) ==
    /\ i \in 1..Len(spRuns)
    /\ spRuns[i].pc = "caught"
    /\ spRuns' = [spRuns EXCEPT ![i].pc = "failed"]
    /\ spSpeaking' = ValueAfterCatch(spSpeaking)
    /\ UNCHANGED <<spShown, spClicks, netVars, normVars, recVars, callVars, trVars>>

\* the playback ends: source.onended of line 69
PlaybackEnds(i) ==
    /\ i \in 1..Len(spRuns)
    /\ spRuns[i].pc = "playing"
    /\ spRuns' = [spRuns EXCEPT ![i].pc = "ended"]
    /\ spSpeaking' = FALSE
    /\ UNCHANGED <<spShown, spClicks, netVars, normVars, recVars, callVars, trVars>>

\* React renders a state update made outside an event handler
Render ==
    /\ spClicks >= 0
    /\ spShown # spSpeaking
    /\ spShown' = spSpeaking
    /\ UNCHANGED <<spSpeaking, spRuns, spClicks, netVars, normVars, recVars, callVars, trVars>>

\* a continuation of handleSpeak runs
Continue ==
    \E i \in 1..MaxClicks :
        \/ \E setupThrows \in BOOLEAN : AfterRequest(i, setupThrows)
        \/ \E startThrows \in BOOLEAN : AfterDecode(i, startThrows)
        \/ CatchStep(i)

SpeakNext ==
    \/ Activate
    \/ \E i \in 1..MaxClicks : \E what \in {"reject", "empty", "data"} : SpeechSettles(i, what)
    \/ \E i \in 1..MaxClicks : \E setupThrows \in BOOLEAN : AfterRequest(i, setupThrows)
    \/ \E i \in 1..MaxClicks : \E what \in {"decodeFail", "decoded"} : DecodeSettles(i, what)
    \/ \E i \in 1..MaxClicks : \E startThrows \in BOOLEAN : AfterDecode(i, startThrows)
    \/ \E i \in 1..MaxClicks : CatchStep(i)
    \/ \E i \in 1..MaxClicks : PlaybackEnds(i)
    \/ Render

SpeakSpec == SpeakInit /\ [][SpeakNext]_vars

\* a settled promise's continuation runs, and so does a pending render;
\* nothing obliges the provider, the decoder or the playback to come to an
\* end, or the user to activate the control
FairSpeakSpec == SpeakSpec /\ WF_vars(Continue) /\ WF_vars(Render)

(***************************************************************************)
(* ServiceSpec: a run of any one of the three operations of the service:   *)
(* a call of transcribeAudio, a call of translateSegments, or the          *)
(* generateSpeech calls of a speak control.                                *)
(***************************************************************************)
ServiceInit == Init \/ TranslateInit \/ SpeakInit

ServiceNext == Next \/ TranslateNext \/ SpeakNext

ServiceSpec == ServiceInit /\ [][ServiceNext]_vars

(***************************************************************************)
(* RecoverSpec: tryRepairJson, and then the body of transcribeAudio after  *)
(* the await, applied to each response text.                               *)
(***************************************************************************)
RecoverInit ==
    /\ respDoc \in CutDocs \cup OddDocs
    /\ respText = Text(respDoc)
    /\ repairOut = NotCalled
    /\ procOut = Pending
    /\ recStep = "start"
    /\ NormIdle
    /\ CallIdle
    /\ NetIdle
    /\ TrIdle
    /\ SpeakIdle

RepairCall ==
    /\ recStep = "start"
    /\ repairOut' = tryRepairJson(respText)
    /\ recStep' = "repaired"
    /\ UNCHANGED <<respDoc, respText, procOut, normVars, callVars, netVars, trVars, speakVars>>

ProcessCall ==
    /\ recStep = "repaired"
    /\ procOut' = ProcessResponse([hasText |-> TRUE, text |-> respText])
    /\ recStep' = "processed"
    /\ UNCHANGED <<respDoc, respText, repairOut, normVars, callVars, netVars, trVars, speakVars>>

RecoverNext == RepairCall \/ ProcessCall

RecoverSpec == RecoverInit /\ [][RecoverNext]_vars

(***************************************************************************)
(* The timestamp strings the normalizer is applied to.                     *)
(***************************************************************************)
MaxTsLen == 4

MaxComponents == 4

MaxPasses == 2

TsAlphabet == {"0", "7", ":", ".", " ", "x"}

\* every string over TsAlphabet of at most MaxTsLen characters
ShortInputs == UNION {[1..k -> TsAlphabet] : k \in 0..MaxTsLen}

WholeParts ==
    { <<"0">>, <<"5", "9">>, <<"3", "5", "9", "9">>, <<"3", "6", "0", "0">>,
      <<"8", "6", "3", "9", "9">>, <<"3", "5", "9", "9", "9", "9">>,
      <<"3", "6", "0", "0", "0", "0">> }

FracParts ==
    { <<"5">>, <<"4", "5", "6">>, <<"0", "0", "0", "4">>, <<"9", "9", "9", "4">>,
      <<"9", "9", "9", "6">> }

\* bare seconds counts, with and without a fraction
SecondsInputs ==
    WholeParts \cup {w \o <<".">> \o f : w \in WholeParts, f \in FracParts}

ComponentSet ==
    { <<>>, <<"7">>, <<"1", "2">>, <<"3", "4", "5">>, <<"6", "7", "8", "9">>,
      <<"4", "x", "5">> }

\* the separator before component k of n: all colons, all periods, or colons
\* and a period before the last component
SeparatorStyles == {"colon", "period", "clock"}

Separator(style, k, n) ==
    IF style = "colon" THEN <<":">>
    ELSE IF style = "period" THEN <<".">>
    ELSE IF k = n THEN <<".">> ELSE <<":">>

RECURSIVE Join(_, _, _)
Join(c, style, k) ==
    IF k = 1 THEN c[1]
    ELSE Join(c, style, k - 1) \o Separator(style, k, Len(c)) \o c[k]

Paddings == {<<>>, <<" ">>}

\* clock-like strings of 1..MaxComponents components
ClockInputs ==
    UNION { { p \o Join(c, style, n) \o p :
                c \in [1..n -> ComponentSet], style \in SeparatorStyles, p \in Paddings }
            : n \in 1..MaxComponents }

TwoDigits == {<<"0", "0">>, <<"0", "7">>, <<"1", "2">>, <<"9", "9">>}

ThreeDigits == {<<"0", "0", "0">>, <<"0", "4", "5">>, <<"9", "9", "9">>}

\* strings already in the form HH:MM:SS.mmm
CanonInputs ==
    { h \o <<":">> \o m \o <<":">> \o s \o <<".">> \o f :
        h \in TwoDigits, m \in TwoDigits, s \in TwoDigits, f \in ThreeDigits }

TsInputs == ShortInputs \cup SecondsInputs \cup ClockInputs \cup CanonInputs

(***************************************************************************)
(* NormSpec: normalizeTimestamp applied to each input, and to its own      *)
(* results.                                                                *)
(***************************************************************************)
NormInit ==
    /\ tsIn \in TsInputs
    /\ tsOut = <<>>
    /\ tsDone = FALSE
    /\ tsPass = 0
    /\ RecIdle
    /\ CallIdle
    /\ NetIdle
    /\ TrIdle
    /\ SpeakIdle

NormalizeCall ==
    /\ ~tsDone
    /\ tsOut' = normalizeTimestamp(tsIn)
    /\ tsDone' = TRUE
    /\ UNCHANGED <<tsIn, tsPass, recVars, callVars, netVars, trVars, speakVars>>

\* the caller passes a returned timestamp back in
NormalizeAgain ==
    /\ tsDone
    /\ tsPass < MaxPasses
    /\ tsIn' = tsOut
    /\ tsOut' = <<>>
    /\ tsDone' = FALSE
    /\ tsPass' = tsPass + 1
    /\ UNCHANGED <<recVars, callVars, netVars, trVars, speakVars>>

NormNext == NormalizeCall \/ NormalizeAgain

NormSpec == NormInit /\ [][NormNext]_vars

\* HH:MM:SS.mmm: two digits, colon, two digits, colon, two digits, period,
\* three digits
IsCanonical(s) ==
    /\ Len(s) = 12
    /\ \A i \in {1, 2, 4, 5, 7, 8, 10, 11, 12} : s[i] \in Digits
    /\ s[3] = ":" /\ s[6] = ":" /\ s[9] = "."

\* C4: every string normalizeTimestamp returns has the form HH:MM:SS.mmm.
NormalizeReturnsCanonical == tsDone => IsCanonical(tsOut)

\* C5: normalizeTimestamp returns a string of the form HH:MM:SS.mmm unchanged,
\* on the first application and on every later one.
CanonicalIsFixedPoint == (tsDone /\ IsCanonical(tsIn)) => tsOut = tsIn

\* a canonical result, other than the fallback, normalized a second time
CanonicalRenormalized ==
    tsDone /\ tsPass = 1 /\ IsCanonical(tsIn) /\ tsIn # ZeroTimestamp

\* a field of two characters: zeros on the left, then the first two characters
TwoWide(s) ==
    IF Len(s) = 0 THEN <<"0", "0">>
    ELSE IF Len(s) = 1 THEN <<"0", s[1]>>
    ELSE <<s[1], s[2]>>

\* a field of three characters: zeros on the right, then the first three
ThreeWide(s) == [i \in 1..3 |-> IF i <= Len(s) THEN s[i] ELSE "0"]

\* the argument is neither empty nor a bare seconds count and has three
\* components once cleaned
ThreeComponentInput(ts) ==
    /\ ts # <<>>
    /\ ~IsRawSeconds(Trim(ts))
    /\ Len(Components(Clean(Trim(ts)))) = 3

\* C6: with three components, a last component of exactly three characters
\* makes them MM, SS, mmm under hours 00; any other length makes them
\* HH, MM, SS under milliseconds 000.
ThreeComponentsDisambiguated ==
    (tsDone /\ ThreeComponentInput(tsIn)) =>
        LET c == Components(Clean(Trim(tsIn)))
        IN  tsOut = IF Len(c[3]) = 3
                    THEN <<"0", "0", ":">> \o TwoWide(c[1]) \o <<":">> \o TwoWide(c[2])
                           \o <<".">> \o ThreeWide(c[3])
                    ELSE TwoWide(c[1]) \o <<":">> \o TwoWide(c[2]) \o <<":">>
                           \o TwoWide(c[3]) \o <<".", "0", "0", "0">>

\* three components whose last has three characters, and the first more than two
ThreeComponentsWithMillis ==
    /\ tsDone /\ ThreeComponentInput(tsIn)
    /\ Len(Components(Clean(Trim(tsIn)))[3]) = 3
    /\ Len(Components(Clean(Trim(tsIn)))[1]) > 2

(***************************************************************************)
(* Properties of the recovery of a response text.                          *)
(***************************************************************************)
\* C7 as claimed: whenever tryRepairJson returns, the list it returns holds
\* at least one segment.
RepairReturnsAtLeastOneSegment == repairOut.ok => Len(repairOut.segments) >= 1

\* no tier finds anything in the text
NothingToRecover(text) ==
    /\ ~HasSegmentsArray(JsonParse(Trim(text)))
    /\ ~HasSegmentsArray(TruncationRepair(Trim(text)))
    /\ Scrape(Trim(text), 1, <<>>) = <<>>

\* C7 as amended: tryRepairJson throws the structure error exactly when the
\* text parses to no object with a segments array, directly or after the
\* truncation repair, and the pattern matches nowhere; a scraped result
\* holds at least one segment, and only a parsed one can be empty.
RepairThrowsWhenNothingToRecover ==
    recStep \in {"repaired", "processed"} =>
        /\ NothingToRecover(respText) <=> ~repairOut.ok
        /\ ~repairOut.ok => repairOut.error = StructureInvalid
        /\ (repairOut.ok /\ repairOut.tier = 3) => Len(repairOut.segments) >= 1
        /\ (repairOut.ok /\ repairOut.segments = <<>>) => repairOut.tier \in {1, 2}

\* tryRepairJson threw on a text that is not empty
RepairThrewOnText == recStep = "repaired" /\ ~repairOut.ok /\ respText # <<>>

\* the object a complete segment of a document parses to
SegmentObject(seg) ==
    [t |-> "obj",
     v |-> << [k |-> KeyStartTime, x |-> [t |-> "str", v |-> seg.st]],
              [k |-> KeyEndTime,   x |-> [t |-> "str", v |-> seg.et]],
              [k |-> KeyText,      x |-> [t |-> "str", v |-> seg.tx]] >>]

\* a well-formed document cut inside its last segment object, after at
\* least one complete segment
CutMidSegment(doc) ==
    /\ doc.layout \in {"compact", "spaced"}
    /\ doc.fence = "none"
    /\ Len(doc.segs) >= 2
    /\ doc.cut > SegmentStart(doc.segs, doc.layout, Len(doc.segs))
    /\ doc.cut < SegmentEnd(doc.segs, doc.layout, Len(doc.segs))

\* C8: from a document cut inside a segment object tryRepairJson returns
\* exactly the complete segments before the cut, in order.
CutDocRecoversCompleteSegments ==
    (recStep \in {"repaired", "processed"} /\ CutMidSegment(respDoc)) =>
        /\ repairOut.ok
        /\ repairOut.segments =
             [i \in 1..(Len(respDoc.segs) - 1) |-> SegmentObject(respDoc.segs[i])]

\* what tryRepairJson gives transcribeAudio for the response text
Recovered(text) == tryRepairJson(StripFence(Trim(text)))

FencedEndsAsContent ==
    (recStep = "processed" /\ respDoc.fence = "json") =>
        procOut = ProcessResponse([hasText |-> TRUE, text |-> Content(respDoc)])

\* C10 as amended: it does when the content is not empty and does not
\* itself start with a code fence.
FencedEndsAsUnfencedContent ==
    ( /\ recStep = "processed" /\ respDoc.fence = "json"
      /\ Content(respDoc) # <<>>
      /\ ~StartsWith(Trim(Content(respDoc)), Fence) ) =>
        procOut = ProcessResponse([hasText |-> TRUE, text |-> Content(respDoc)])

\* a fenced document of two segments was processed and returned them
FencedDocReturned ==
    /\ recStep = "processed" /\ respDoc.fence = "json"
    /\ Len(respDoc.segs) = 2
    /\ procOut.kind = "return" /\ Len(procOut.segments) = 2

(***************************************************************************)
(* Cancellation of transcribeAudio.                                        *)
(***************************************************************************)
\* C1: when the signal was aborted at the call, or became aborted while the
\* request was still pending, the call never returns a segment list, and
\* once it has ended it has rejected with the AbortError, whatever the
\* request settled with afterwards
AbortedFirstEndsCancelled ==
    abortedFirst =>
        /\ settled.outcome.kind # "return"
        /\ pc = "done" => /\ settled.outcome.kind = "throw"
                          /\ settled.outcome.error = AbortError

\* the call has ended cancelled although the request was answered with a
\* response that the try block would have turned into a segment list
CancelledDespiteGoodResponse ==
    /\ pc = "done"
    /\ abortedFirst
    /\ request.state = "fulfilled"
    /\ Processed[request.response].kind = "return"
    /\ Len(Processed[request.response].segments) > 0
    /\ settled.outcome.error = AbortError

\* C2: a call that is waiting at the await with the signal aborted (at the
\* call or while the request was pending) eventually ends with the
\* AbortError, with no step of the request being required
AbortedCallSettlesCancelled ==
    (pc = "awaiting" /\ abortedFirst)
        ~> (pc = "done" /\ settled.outcome.error = AbortError)

\* the call has ended cancelled while the request is still pending
CancelledWhileRequestPending ==
    /\ pc = "done"
    /\ abortedFirst
    /\ request.state = "pending"
    /\ settled.outcome.kind = "throw"
    /\ settled.outcome.error = AbortError

\* the generic Error of line 252 for a caught error
Wrapped(error) ==
    Err("Error", IF error.message = "" THEN "Transcription failed" ELSE error.message,
        "wrapped")

\* C3: a call that ends on the rejection of abortPromise throws that very
\* AbortError and logs nothing; a call that ends on any other failure (empty
\* response, unrecoverable structure, transport error, TypeError of the map)
\* logs it and throws a new Error with the failure's message, or with
\* "Transcription failed" when it has none, whose name is not AbortError
CancellationKeptOtherFailuresWrapped ==
    (pc = "done" /\ settled.caught # NoError) =>
        IF settled.caught = AbortError
        THEN /\ settled.outcome = Throws(AbortError)
             /\ ~settled.logged
        ELSE /\ settled.caught.id \in {"empty", "repair", "map", "transport"}
             /\ settled.outcome = Throws(Wrapped(settled.caught))
             /\ settled.outcome.error.name # "AbortError"
             /\ settled.logged

\* the call has ended on a transport error without a message, after the
\* signal was aborted too late to matter
MessagelessTransportErrorWrapped ==
    /\ pc = "done"
    /\ settled.caught.id = "transport"
    /\ settled.caught.message = ""
    /\ settled.outcome.error.message = "Transcription failed"
    /\ settled.logged
    /\ aborted

(***************************************************************************)
(* translateSegments.                                                      *)
(***************************************************************************)
\* whether value is a list with one object for each segment of in, with
\* that segment's startTime and endTime
CorrespondsTo(in, value) ==
    /\ value.t = "arr"
    /\ Len(value.v) = Len(in)
    /\ \A i \in 1..Len(in) :
          /\ Property(value.v[i], KeyStartTime) = [t |-> "str", v |-> in[i].startTime]
          /\ Property(value.v[i], KeyEndTime) = [t |-> "str", v |-> in[i].endTime]

\* C11: what translateSegments returns is a list as long as its argument
\* whose element at every position has the startTime and endTime of the
\* argument's segment at that position
TranslationCorrespondsToInput ==
    (trPc = "done" /\ trOut.outcome.kind = "return")
        => CorrespondsTo(trIn, trOut.outcome.segments)

\* whether a response has no text, or a text that does not parse into an
\* object with a segments list
UnusableTranslation(response) ==
    \/ ~response.hasText
    \/ response.text = <<>>
    \/ ~HasSegmentsArray(JsonParse(StripFence(Trim(response.text))))

\* C12: when the response has no text or its text does not parse into a
\* segments list, translateSegments returns nothing and throws the error it
\* makes itself for translation
UnusableTranslationFails ==
    (trPc = "done" /\ trRequest.state = "fulfilled"
                   /\ UnusableTranslation(trRequest.response))
        => /\ trOut.outcome.kind = "throw"
           /\ trOut.outcome.error.id = "emptyTranslation"

(***************************************************************************)
(* The tiers of tryRepairJson.                                             *)
(***************************************************************************)
\* whether JSON.parse of the trimmed text gives an object with a segments list
DirectSucceeds(text) == HasSegmentsArray(JsonParse(Trim(text)))

\* whether the truncation repair of the trimmed text gives one
TruncationSucceeds(text) == HasSegmentsArray(TruncationRepair(Trim(text)))

\* C13: tryRepairJson returns the result of the first tier that succeeds,
\* in the order direct parse, truncation repair, pattern scraping: a result
\* of the direct parse is returned whenever that parse succeeds, a result of
\* the truncation repair exactly when the direct parse failed and the repair
\* succeeds, and a result of the scraping only when both parses failed
FirstSucceedingTierWins ==
    (recStep # "start" /\ repairOut.ok) =>
        /\ repairOut.tier \in {1, 2, 3}
        /\ repairOut.tier = 1 <=> DirectSucceeds(respText)
        /\ repairOut.tier = 2 <=> (~DirectSucceeds(respText) /\ TruncationSucceeds(respText))
        /\ repairOut.tier = 3 =>
              /\ ~DirectSucceeds(respText)
              /\ ~TruncationSucceeds(respText)
              /\ repairOut.segments = Scrape(Trim(respText), 1, <<>>)
        /\ repairOut.tier = 1 =>
              repairOut.segments = SegmentsOf(JsonParse(Trim(respText)))
        /\ repairOut.tier = 2 =>
              repairOut.segments = SegmentsOf(TruncationRepair(Trim(respText)))

\* a text the direct parse failed on was repaired by truncation, although
\* the scraping would have found segments in it too
TruncationRepairedBeforeScraping ==
    /\ recStep # "start"
    /\ repairOut.ok
    /\ repairOut.tier = 2
    /\ Len(repairOut.segments) > 0
    /\ ~DirectSucceeds(respText)
    /\ Len(Scrape(Trim(respText), 1, <<>>)) > 0

(***************************************************************************)
(* The text of a scraped segment.                                          *)
(***************************************************************************)
\* raw with every escape sequence decoded: a backslash and the character
\* after it stand for one character
DecodeEscapes(raw) ==
    LET escAt(k) == k < Len(raw) /\ raw[k] = "\\" /\ BackslashRun(raw, 1, k) % 2 = 0
        piece(k) ==
            IF escAt(k) THEN <<EscapeChar(raw[k + 1])>>
            ELSE IF k > 1 /\ escAt(k - 1) THEN <<>>
            ELSE <<raw[k]>>
    IN  Flatten([k \in 1..Len(raw) |-> piece(k)], 1, Len(raw))

\* the third capture of every match the loop of lines 122-144 makes
RECURSIVE ScrapedRaw(_, _, _)
ScrapedRaw(s, i, acc) ==
    LET starts == {k \in i..Len(s) : s[k] = "{" /\ MatchSegmentAt(s, k).ok}
        m      == MatchSegmentAt(s, SetMin(starts))
    IN  IF starts = {} THEN acc
        ELSE ScrapedRaw(s, m.pos, Append(acc, m.groups[3]))

\* C14: the text of every segment the pattern scraping emits is the
\* captured value with all its escape sequences decoded
ScrapedTextDecoded ==
    (recStep # "start" /\ repairOut.ok /\ repairOut.tier = 3) =>
        LET raw == ScrapedRaw(Trim(respText), 1, <<>>)
        IN  /\ Len(raw) = Len(repairOut.segments)
            /\ \A i \in 1..Len(raw) :
                  Property(repairOut.segments[i], KeyText)
                      = [t |-> "str", v |-> DecodeEscapes(raw[i])]

(***************************************************************************)
(* The speak control.                                                      *)
(***************************************************************************)
\* an activation whose synthesis has failed: its promise rejected, gave no
\* audio data or failed to decode, or it stands in the catch block
Failing ==
    \E i \in 1..Len(spRuns) :
        \/ spRuns[i].arrived \in {"reject", "empty", "decodeFail"}
        \/ spRuns[i].pc = "caught"

\* C15: after a failure of the synthesis at any step, isSpeaking is
\* eventually false and rendered so, which enables the control again
FailureResetsSpeaking == Failing ~> (~spSpeaking /\ ~spShown)

\* an activation failed when starting the playback threw, and the control
\* is enabled again
ControlEnabledAfterStartThrew ==
    /\ \E i \in 1..Len(spRuns) : spRuns[i].pc = "failed" /\ spRuns[i].failure = "start"
    /\ Unfinished = {}
    /\ ~spSpeaking
    /\ ~spShown

\* the requests of generateSpeech that have not been answered
SpeechInFlight ==
    {i \in 1..Len(spRuns) : spRuns[i].pc = "requesting" /\ spRuns[i].arrived = "none"}

\* C16: at most one activation of the control is under way, so that at most
\* one generateSpeech request is in flight and none is started while a
\* request or its playback is pending
OneSpeechAtATime ==
    /\ Cardinality(Unfinished) <= 1
    /\ Cardinality(SpeechInFlight) <= 1
    /\ Len(sent) = Len(spRuns)

\* the control was activated three times while the playback of the first
\* activation was pending, and one request was made
ActivationsIgnoredWhilePlaying ==
    /\ spClicks = 3
    /\ Len(spRuns) = 1
    /\ spRuns[1].pc = "playing"
    /\ Len(sent) = 1

(***************************************************************************)
(* Outbound requests.                                                      *)
(***************************************************************************)
\* C17: every invocation of transcribeAudio, translateSegments or
\* generateSpeech has issued exactly one outbound request, its own, at every
\* moment from the call on: none is issued again after a failure, an empty
\* response or a cancellation, and no invocation goes without a request
\* because an earlier one had the same text
OneRequestPerInvocation ==
    /\ Len(sent) = Len(calls)
    /\ \A n \in 1..Len(calls) :
          sent[n] = [call |-> n, op |-> calls[n].op, text |-> calls[n].text]
    /\ \A n \in 1..Len(calls) :
          Cardinality({i \in 1..Len(sent) : sent[i].call = n}) = 1

\* generateSpeech was called twice with the same text, the second time after
\* the first call had failed, and two requests were issued
TwoRequestsForTheSameText ==
    /\ Len(calls) = 2
    /\ calls[1].op = "speech"
    /\ calls[1] = calls[2]
    /\ spRuns[1].pc = "failed"
    /\ Len(sent) = 2
    /\ sent[1].call # sent[2].call

=============================================================================
